---- MODULE Spec2Model ----
(***************************************************************************)
(* Model of the blog-writing workflow: the LangGraph pipeline              *)
(* router -> (research) -> orchestrator -> workers -> reducer              *)
(* (merge_content -> decide_images -> generate_and_place_images), the      *)
(* research service's gather_evidence and the image service's              *)
(* process_image_specs.                                                    *)
(*                                                                         *)
(* Text is modelled as a sequence of string tokens; dates as day numbers.  *)
(***************************************************************************)
EXTENDS Integers, Sequences, FiniteSets, TLC

(***************************************************************************)
(* Bounds of the model                                                     *)
(***************************************************************************)
\* largest number of tasks, and largest task id, of the plans enumerated in
\* full (ScenarioTasks adds one three-task plan)
MaxTasks == 2
\* largest number of image specs the generation behind decide_images returns
MaxImages == 4
\* largest number of evidence items a synthesized EvidencePack carries
MaxPack == 2
\* longest title, in characters, given to the slug function on its own
MaxTitleLen == 3
\* longest query list given to gather_evidence on its own
MaxQueries == 12
\* largest number of tasks of a run observed through try_stream
MaxUiTasks == 2

(***************************************************************************)
(* Program constants                                                       *)
(***************************************************************************)
RecencyOpenBook == 7
RecencyHybrid == 45
RecencyClosedBook == 3650
InitialRecencyDays == 7
MinImages == 2
MaxImagesAllowed == 3

Modes == {"closed_book", "hybrid", "open_book"}
BlogKinds == {"explainer", "news_roundup"}

\* the value of an unset Optional field
None == "None"
\* State.plan before the planner has run (plan: None)
NoPlan == [blog_title |-> None, blog_kind |-> None, tasks |-> <<>>]

(***************************************************************************)
(* Generic helpers on sequences                                            *)
(***************************************************************************)
Range(s) == {s[i] : i \in 1..Len(s)}

SeqsUpTo(S, n) == UNION {[1..k -> S] : k \in 0..n}

RECURSIVE Flatten(_)
Flatten(ss) == IF ss = <<>> THEN <<>> ELSE Head(ss) \o Flatten(Tail(ss))

Count(s, x) == Cardinality({i \in 1..Len(s) : s[i] = x})

(***************************************************************************)
(* Dates.  A published_at string is modelled by what date.fromisoformat    *)
(* makes of its first ten characters.                                      *)
(***************************************************************************)
NoDate == -1

PubNone == [kind |-> "none", day |-> 0]
PubEmpty == [kind |-> "empty", day |-> 0]
PubGarbage == [kind |-> "garbage", day |-> 0]
PubDate(d) == [kind |-> "date", day |-> d]
PubDateTime(d) == [kind |-> "datetime", day |-> d]

\* ResearchService._iso_to_date
iso_to_date(s) ==
    IF s.kind \in {"none", "empty"} THEN NoDate
    ELSE IF s.kind \in {"date", "datetime"} THEN s.day
    ELSE NoDate

(***************************************************************************)
(* Research service: gather_evidence                                       *)
(***************************************************************************)
QueryCap == 10

\* dedup[e.url] = e : a dict keeps the position of a key's first insertion
\* and the value of its last one
DictSet(acc, e) ==
    IF \E i \in 1..Len(acc) : acc[i].url = e.url
    THEN [i \in 1..Len(acc) |-> IF acc[i].url = e.url THEN e ELSE acc[i]]
    ELSE Append(acc, e)

RECURSIVE DedupLoop(_, _)
DedupLoop(acc, rest) ==
    IF rest = <<>> THEN acc
    ELSE DedupLoop(IF Head(rest).url # "" THEN DictSet(acc, Head(rest)) ELSE acc,
                   Tail(rest))

\* gather_evidence without the dedup loop
DedupByUrlKeepsAll(items) == items

\* research_service.py, "Deduplicate by URL"
DedupByUrl(items) == DedupLoop(<<>>, items)

\* the recency test with a strict comparison
KeepRecentStrict(e, cutoff) ==
    iso_to_date(e.published_at) # NoDate /\ iso_to_date(e.published_at) > cutoff

KeepRecent(e, cutoff) ==
    iso_to_date(e.published_at) # NoDate /\ iso_to_date(e.published_at) >= cutoff

\* research_service.py, "Apply recency filter for open_book mode"
RecencyFilter(ev, asOf, recencyDays, m) ==
    IF m = "open_book"
    THEN SelectSeq(ev, LAMBDA e : KeepRecent(e, asOf - recencyDays))
    ELSE ev

\* gather_evidence once the synthesis call has returned pack
gather_evidence(pack, asOf, recencyDays, m) ==
    RecencyFilter(DedupByUrl(pack), asOf, recencyDays, m)

\* the slice keeping the whole list
TakeAll(s, n) == s

\* queries[:n]
Take(s, n) == SubSeq(s, 1, IF Len(s) < n THEN Len(s) ELSE n)

\* what happens to one search: TAVILY_API_KEY is not set, the provider
\* raises, it returns no result, it returns results
SearchOutcomes == {"no_credential", "raises", "empty", "hits"}

\* the outcomes of the searches of one gather_evidence call: the credential
\* is there for all of them or for none
SearchRuns(qs) ==
    {[i \in 1..Len(qs) |-> "no_credential"]}
        \cup [1..Len(qs) -> SearchOutcomes \ {"no_credential"}]

\* search_tavily turning the provider's exception into a result
search_tavily_error_result(q, outcome) ==
    IF outcome = "hits" THEN <<[query |-> q]>>
    ELSE IF outcome = "raises" THEN <<[query |-> "error"]>>
    ELSE <<>>

\* ResearchService.search_tavily: the results of one query
search_tavily(q, outcome) == IF outcome = "hits" THEN <<[query |-> q]>> ELSE <<>>

\* raw of gather_evidence: the results of the first QueryCap queries
RawResults(qs, outs) ==
    Flatten([i \in 1..Len(Take(qs, QueryCap)) |-> search_tavily(qs[i], outs[i])])

(***************************************************************************)
(* Workflow nodes: pure parts                                              *)
(***************************************************************************)
\* a recency window that ignores the mode
RecencyForAnyMode(m) == RecencyOpenBook

\* WorkflowNodes.router_node: the recency table
RecencyFor(m) ==
    IF m = "open_book" THEN RecencyOpenBook
    ELSE IF m = "hybrid" THEN RecencyHybrid
    ELSE RecencyClosedBook

\* route_next ignoring the flag, towards the planner
route_next_skips_research(needsResearch) == "orchestrator"

\* route_next ignoring the flag, towards research
route_next_always_research(needsResearch) == "research"

\* WorkflowNodes.route_next
route_next(needsResearch) == IF needsResearch THEN "research" ELSE "orchestrator"

\* the planner keeping the kind the model returned
ForcedKindNotForced(m, returnedKind) == returnedKind

\* WorkflowNodes.orchestrator_node: the blog kind stored in the plan
ForcedKind(m, returnedKind) == IF m = "open_book" THEN "news_roundup" ELSE returnedKind

\* fanout sending the first task only
fanout_first_task(p, t, m, asOf, recencyDays, ev) ==
    [k \in 1..(IF p.tasks = <<>> THEN 0 ELSE 1) |->
        [task |-> p.tasks[k], topic |-> t, mode |-> m, as_of |-> asOf,
         recency_days |-> recencyDays, plan |-> p, evidence |-> ev]]

\* WorkflowNodes.fanout: one Send per task of the plan
fanout(p, t, m, asOf, recencyDays, ev) ==
    [k \in 1..Len(p.tasks) |->
        [task |-> p.tasks[k], topic |-> t, mode |-> m, as_of |-> asOf,
         recency_days |-> recencyDays, plan |-> p, evidence |-> ev]]

\* a worker that puts the sections written so far in its prompt
WorkerPromptWithSections(payload, secs) ==
    [task |-> payload.task, plan |-> payload.plan, topic |-> payload.topic,
     mode |-> payload.mode, as_of |-> payload.as_of,
     recency_days |-> payload.recency_days, evidence |-> payload.evidence,
     sections |-> secs]

\* WorkflowNodes.worker_node: what the prompt of the gateway call is built
\* from; secs is State.sections when the worker runs
WorkerPrompt(payload, secs) ==
    [task |-> payload.task, plan |-> payload.plan, topic |-> payload.topic,
     mode |-> payload.mode, as_of |-> payload.as_of,
     recency_days |-> payload.recency_days, evidence |-> payload.evidence]

\* a sections field without reducer: the update replaces the list
SectionsReducerOverwrite(old, update) == update

\* State.sections: Annotated[List[...], operator.add]
SectionsReducer(old, update) == old \o update

\* sorted(sections, key=lambda x: x[0]) : a stable sort on the task id
RECURSIVE InsertById(_, _)
InsertById(sorted, x) ==
    IF sorted = <<>> THEN <<x>>
    ELSE IF x[1] < Head(sorted)[1] THEN <<x>> \o sorted
    ELSE <<Head(sorted)>> \o InsertById(Tail(sorted), x)

RECURSIVE SortLoop(_, _)
SortLoop(acc, rest) ==
    IF rest = <<>> THEN acc ELSE SortLoop(InsertById(acc, Head(rest)), Tail(rest))

\* merge_content joining the sections in arrival order
SortedByIdArrivalOrder(secs) == secs

SortedById(secs) == SortLoop(<<>>, secs)

\* ordered_sections of merge_content
OrderedSections(secs) ==
    [i \in 1..Len(secs) |-> SortedById(secs)[i][2]]

Whitespace == {"\n\n", "\n"}

RECURSIVE LStrip(_)
LStrip(s) == IF s # <<>> /\ Head(s) \in Whitespace THEN LStrip(Tail(s)) ELSE s

RECURSIVE RStrip(_)
RStrip(s) ==
    IF s # <<>> /\ s[Len(s)] \in Whitespace THEN RStrip(SubSeq(s, 1, Len(s) - 1)) ELSE s

\* str.strip()
Strip(s) == RStrip(LStrip(s))

\* "\n\n".join(parts)
RECURSIVE JoinBlank(_)
JoinBlank(parts) ==
    IF parts = <<>> THEN <<>>
    ELSE IF Len(parts) = 1 THEN <<Head(parts)>>
    ELSE <<Head(parts), "\n\n">> \o JoinBlank(Tail(parts))

\* merged_md of merge_content
MergedMd(p, secs) ==
    <<"# ", p.blog_title, "\n\n">> \o Strip(JoinBlank(OrderedSections(secs))) \o <<"\n">>

(***************************************************************************)
(* Image service: process_image_specs                                      *)
(***************************************************************************)
\* str.replace(old, new) where old is one token of the text
Replace(md, old, new) ==
    Flatten([i \in 1..Len(md) |-> IF md[i] = old THEN new ELSE <<md[i]>>])

\* img_md of process_image_specs
ImgMd(spec) ==
    <<"![">> \o spec.alt \o <<"](images/", spec.filename, ")\n*">> \o spec.caption \o <<"*">>

\* prompt_block of process_image_specs
PromptBlock(spec, err) ==
    <<"> **[IMAGE GENERATION FAILED]** ">> \o spec.caption
        \o <<"\n>\n> **Alt:** ">> \o spec.alt
        \o <<"\n>\n> **Prompt:** ">> \o spec.prompt
        \o <<"\n>\n> **Error:** ">> \o err \o <<"\n">>

ErrorText == <<"No image content returned.">>

\* generate_and_save without the test of line 96: the backend is called
\* whether or not the file exists
generate_and_save_always_calls(spec, files, backendFails) ==
    IF backendFails
    THEN [called |-> TRUE, raised |-> TRUE, files |-> files]
    ELSE [called |-> TRUE, raised |-> FALSE, files |-> files \cup {spec.filename}]

\* ImageService.generate_and_save: whether the backend is called, whether
\* the call raises, and the images directory afterwards
generate_and_save(spec, files, backendFails) ==
    IF spec.filename \in files
    THEN [called |-> FALSE, raised |-> FALSE, files |-> files]
    ELSE IF backendFails
         THEN [called |-> TRUE, raised |-> TRUE, files |-> files]
         ELSE [called |-> TRUE, raised |-> FALSE, files |-> files \cup {spec.filename}]

\* one iteration of the loop of process_image_specs
ImageStep(md, spec, files, backendFails) ==
    LET g == generate_and_save(spec, files, backendFails)
    IN  [md |-> IF g.raised
                THEN Replace(md, spec.placeholder, PromptBlock(spec, ErrorText))
                ELSE Replace(md, spec.placeholder, ImgMd(spec)),
         files |-> g.files,
         called |-> g.called,
         raised |-> g.raised]

\* the loop without the try/except around a spec: the first rendering that
\* raises ends it
RECURSIVE ImageLoopStopsAtFailure(_, _, _, _)
ImageLoopStopsAtFailure(acc, specs, i, fails) ==
    IF i > Len(specs) THEN acc
    ELSE LET r == ImageStep(acc.md, specs[i], acc.files, i \in fails)
         IN  IF r.raised
             THEN [acc EXCEPT !.raised = acc.raised \cup {i},
                              !.called = acc.called \cup {i}]
             ELSE ImageLoopStopsAtFailure(
                      [md |-> r.md, files |-> r.files, raised |-> acc.raised,
                       called |-> IF r.called THEN acc.called \cup {i} ELSE acc.called],
                      specs, i + 1, fails)

\* the loop of process_image_specs from spec i on; fails is the set of
\* positions whose backend call raises if it is made.  The result carries
\* the positions whose rendering raised and those that called the backend.
RECURSIVE ImageLoop(_, _, _, _)
ImageLoop(acc, specs, i, fails) ==
    IF i > Len(specs) THEN acc
    ELSE LET r == ImageStep(acc.md, specs[i], acc.files, i \in fails)
         IN  ImageLoop([md |-> r.md, files |-> r.files,
                        raised |-> IF r.raised THEN acc.raised \cup {i} ELSE acc.raised,
                        called |-> IF r.called THEN acc.called \cup {i} ELSE acc.called],
                       specs, i + 1, fails)

process_image_specs(md, specs, files, fails) ==
    ImageLoop([md |-> md, files |-> files, raised |-> {}, called |-> {}], specs, 1, fails)

ImageRefCount(md) == Count(md, "![")
DiagnosticCount(md) == Count(md, "> **[IMAGE GENERATION FAILED]** ")

\* the banner put twice in front of the document
BannerTwice ==
    <<"> Note: Image generation failed. See markdown for placeholders.\n\n",
      "> Note: Image generation failed. See markdown for placeholders.\n\n">>

\* the warning banner of generate_and_place_images
Banner == <<"> Note: Image generation failed. See markdown for placeholders.\n\n">>

\* GlobalImagePlan.images without min_length
GlobalImagePlanValidNoMin(images) == Len(images) <= MaxImagesAllowed

\* GlobalImagePlan.images: Field(..., min_length=2, max_length=3)
GlobalImagePlanValid(images) ==
    Len(images) >= MinImages /\ Len(images) <= MaxImagesAllowed

(***************************************************************************)
(* Slugs: _safe_slug of workflow/nodes.py and safe_slug of ui/app.py.  A   *)
(* title is a sequence of characters.                                      *)
(***************************************************************************)
UpperChars == {"A"}
\* the letters a-z the model uses
LowerChars == {"a", "b", "g", "l", "o"}
DigitChars == {"7"}
\* whitespace other than the space character
TabChars == {"\t"}
\* ASCII punctuation other than underscore and hyphen
PunctChars == {"!"}
\* characters outside ASCII whose lowercase form is outside ASCII too
OtherChars == {"e-acute"}
\* the characters of the titles enumerated
TitleChars ==
    UpperChars \cup {"a"} \cup DigitChars \cup TabChars \cup PunctChars
        \cup OtherChars \cup {" ", "_", "-"}

\* str.lower() on one character
LowerChar(c) == IF c = "A" THEN "a" ELSE c
lower(s) == [i \in 1..Len(s) |-> LowerChar(s[i])]

\* str.strip(chars)
RECURSIVE LStripChars(_, _)
LStripChars(s, cs) ==
    IF s # <<>> /\ Head(s) \in cs THEN LStripChars(Tail(s), cs) ELSE s

RECURSIVE RStripChars(_, _)
RStripChars(s, cs) ==
    IF s # <<>> /\ s[Len(s)] \in cs THEN RStripChars(SubSeq(s, 1, Len(s) - 1), cs) ELSE s

StripChars(s, cs) == RStripChars(LStripChars(s, cs), cs)

\* the characters of the class [a-z0-9 _-]
SlugClass == LowerChars \cup DigitChars \cup {" ", "_", "-"}

\* re.sub(r"[^a-z0-9 _-]+", "", s)
RemoveUnsafe(s) == SelectSeq(s, LAMBDA c : c \in SlugClass)

\* re.sub(r"\s+", "_", s)
RECURSIVE SpacesToUnderscore(_)
SpacesToUnderscore(s) ==
    IF s = <<>> THEN <<>>
    ELSE IF Head(s) \in ({" "} \cup TabChars)
         THEN <<"_">> \o SpacesToUnderscore(LStripChars(s, {" "} \cup TabChars))
         ELSE <<Head(s)>> \o SpacesToUnderscore(Tail(s))

DefaultSlug == <<"b", "l", "o", "g">>

\* the slug function without its default
safe_slug_no_default(title) ==
    StripChars(SpacesToUnderscore(RemoveUnsafe(lower(StripChars(title, {" "} \cup TabChars)))),
               {"_"})

\* WorkflowNodes._safe_slug and BlogWriterUI.safe_slug (the same code)
safe_slug(title) ==
    LET s == StripChars(
                 SpacesToUnderscore(
                     RemoveUnsafe(lower(StripChars(title, {" "} \cup TabChars)))),
                 {"_"})
    IN  IF s = <<>> THEN DefaultSlug ELSE s

(***************************************************************************)
(* Inputs the environment supplies (run input, gateway answers)            *)
(***************************************************************************)
Topics == {"Binary search trees"}
\* 2024-06-10 as a day number
AsOfDays == {739047}
Titles == {"A a!"}
\* the characters of a title
Chars(title) == IF title = "A a!" THEN <<"A", " ", "a", "!">> ELSE <<>>

\* Path.write_text not writing
write_text_skipped(dir, name, text) == dir

\* Path.write_text: the directory afterwards, the file created or replaced
write_text(dir, name, text) ==
    {f \in dir : f.name # name} \cup {[name |-> name, text |-> text]}

\* the two paths generate_and_place_images writes to
OutputPath(title) == <<"outputs/">> \o safe_slug(Chars(title)) \o <<".md">>
RootPath(title) == safe_slug(Chars(title)) \o <<".md">>

\* merge_content not testing the plan
PlanAbsentNotTested(p) == FALSE

\* merge_content: plan is None
PlanAbsent(p) == p = NoPlan
QueryChoices == {<<>>, <<"q1", "q2">>}
Urls == {"", "u1", "u2"}
PlaceholderTokens ==
    <<"[[IMAGE_1]]", "[[IMAGE_2]]", "[[IMAGE_3]]", "[[IMAGE_4]]", "[[IMAGE_5]]", "[[IMAGE_6]]">>
SectionTexts == <<"## A", "## B", "## C", "## D", "## E">>

EvidenceItem(u, p) == [url |-> u, published_at |-> p]

\* the packs the synthesis call returns in a run of the workflow
WorkflowPacks(asOf) ==
    { <<EvidenceItem("u2", PubNone)>>,
      <<EvidenceItem("u1", PubDate(asOf)), EvidenceItem("u2", PubNone)>> }

\* the published_at values of the items a synthesized pack may carry,
\* around the cutoff day
PubChoices(cutoff) ==
    { PubNone, PubEmpty, PubGarbage, PubDate(cutoff - 1), PubDate(cutoff),
      PubDateTime(cutoff - 1), PubDateTime(cutoff + 1) }

PackItems(cutoff) == {EvidenceItem(u, p) : u \in Urls, p \in PubChoices(cutoff)}

Task(i) == [id |-> i]
\* a plan whose tasks are listed out of id order
ScenarioTasks == <<3, 1, 2>>
TaskLists ==
    {[k \in 1..Len(ids) |-> Task(ids[k])] :
        ids \in SeqsUpTo(1..MaxTasks, MaxTasks) \cup {ScenarioTasks}}

\* the section text the gateway returns for the k-th work item
WorkerTexts(k) == {SectionTexts[k]}

FileNames == <<"img_1.png", "img_2.png", "img_3.png", "img_4.png", "img_5.png", "img_6.png">>

CanonicalSpec(i) ==
    [placeholder |-> PlaceholderTokens[i], filename |-> FileNames[i],
     alt |-> <<"alt">>, caption |-> <<"caption">>, prompt |-> <<"prompt">>]

CanonicalSpecs(n) == [i \in 1..n |-> CanonicalSpec(i)]

\* the md_with_placeholders the gateway may return for a merged document:
\* the document with the n placeholders appended, nothing at all, or the
\* placeholders under the title with the sections left out
DocChoices(merged, n) ==
    { merged \o [i \in 1..n |-> PlaceholderTokens[i]],
      <<>>,
      SubSeq(merged, 1, 3) \o [i \in 1..n |-> PlaceholderTokens[i]] }

(***************************************************************************)
(* State                                                                   *)
(***************************************************************************)
VARIABLES
    pc,                 \* the stage that runs next
    topic, as_of,       \* State: run input
    mode, needs_research, queries, recency_days,
    evidence, plan, sections,
    merged_md, md_with_placeholders, image_specs, final,
    sends,              \* the Send items fanout emitted
    worker_done,        \* positions of sends whose worker has returned
    images_dir,         \* file names present under images/
    out_file, root_file,\* contents of outputs/<slug>.md and <slug>.md
    research_calls,     \* number of gather_evidence calls made
    planner_mode,       \* the mode orchestrator_node put in its prompt
    returned_kind,      \* the blog_kind of the plan the planner generation returned
    img_returned,       \* number of images the decide_images generation returned
    warnings,           \* warnings printed
    abort_at,           \* the stage whose exception ended the run
    rs_pack, rs_dedup,  \* gather_evidence: pack.evidence and the dedup list
    im_md0, im_fails,   \* process_image_specs: the document and backend failures given
    im_md, im_raised, im_called, \* its result, the specs that raised, the backend calls
    sl_title, sl_slug,  \* the slug function: its argument and its result
    stream,             \* the updates app.stream(stream_mode="updates") has yielded
    merge_runs,         \* number of times merge_content has started
    rs_searches,        \* gather_evidence: the outcome of each search
    synth_calls,        \* number of synthesis calls gather_evidence made to the gateway
    worker_inputs,      \* what each worker that has run put in its prompt
    rs_queries,         \* gather_evidence: the queries given to search_tavily, in order
    im_dir0,            \* process_image_specs: the images directory when it was called
    ui_pc,              \* try_stream: the statement it is at
    ui_run, ui_pos,     \* the run being streamed and the number of its steps yielded
    ui_runs,            \* number of workflow runs try_stream has started
    ui_writes,          \* number of runs that wrote the output files
    ui_state,           \* current_state, rebuilt by extract_latest_state
    ui_real,            \* the state of the run being streamed
    ui_final            \* the payload yielded as "final"

stateVars == <<topic, as_of, mode, needs_research, queries, recency_days,
               evidence, plan, sections, merged_md, md_with_placeholders,
               image_specs, final>>
graphVars == <<sends, worker_done, worker_inputs>>
envVars == <<images_dir, out_file, root_file>>
obsVars == <<research_calls, planner_mode, returned_kind, img_returned, warnings, abort_at>>
rsVars == <<rs_pack, rs_dedup, rs_queries>>
imVars == <<im_md0, im_dir0, im_fails, im_md, im_raised, im_called>>
slVars == <<sl_title, sl_slug>>
trVars == <<stream, merge_runs, rs_searches, synth_calls>>
uiVars == <<ui_pc, ui_run, ui_pos, ui_runs, ui_writes, ui_state, ui_real, ui_final>>
vars == <<pc, stateVars, graphVars, envVars, obsVars, rsVars, imVars, slVars, trVars, uiVars>>

\* try_stream has not been called
UiIdle ==
    /\ ui_pc = "idle"
    /\ ui_run = None
    /\ ui_pos = 0
    /\ ui_runs = 0
    /\ ui_writes = 0
    /\ ui_state = None
    /\ ui_real = None
    /\ ui_final = None

\* the initial state the UI passes to the graph (ui/app.py, inputs)
InitState ==
    /\ topic \in Topics
    /\ as_of \in AsOfDays
    /\ mode = ""
    /\ needs_research = FALSE
    /\ queries = <<>>
    /\ recency_days = InitialRecencyDays
    /\ evidence = <<>>
    /\ plan = NoPlan
    /\ sections = <<>>
    /\ merged_md = <<>>
    /\ md_with_placeholders = <<>>
    /\ image_specs = <<>>
    /\ final = <<>>

InitAux ==
    /\ sends = <<>>
    /\ worker_done = {}
    /\ worker_inputs = {}
    /\ images_dir = {}
    /\ out_file = {}
    /\ root_file = {}
    /\ research_calls = 0
    /\ planner_mode = None
    /\ returned_kind = None
    /\ img_returned = -1
    /\ warnings = {}
    /\ abort_at = None
    /\ rs_pack = <<>>
    /\ rs_dedup = <<>>
    /\ rs_queries = <<>>
    /\ im_md0 = <<>>
    /\ im_dir0 = {}
    /\ im_fails = {}
    /\ im_md = <<>>
    /\ im_raised = {}
    /\ im_called = {}
    /\ sl_title = <<>>
    /\ sl_slug = <<>>
    /\ stream = <<>>
    /\ merge_runs = 0
    /\ rs_searches = <<>>
    /\ synth_calls = 0
    /\ UiIdle

Init == pc = "router" /\ InitState /\ InitAux

\* an exception no stage catches ends the run
Abort(stage) ==
    /\ pc' = "aborted"
    /\ abort_at' = stage

(***************************************************************************)
(* The workflow graph (workflow/graph.py), one action per node.  A         *)
(* conditional edge is evaluated in the step of the node it leaves.        *)
(***************************************************************************)
\* one update of stream_mode="updates": the node of the main graph that
\* completed and the keys of the state it returned
Emit(node, keys) == stream' = Append(stream, [node |-> node, keys |-> keys])

\* router_node, then the conditional edge route_next
router_node ==
    /\ pc = "router"
    /\ \E m \in Modes, nr \in BOOLEAN, q \in QueryChoices :
        /\ needs_research' = nr
        /\ mode' = m
        /\ queries' = q
        /\ recency_days' = RecencyFor(m)
        /\ pc' = route_next(nr)
    /\ Emit("router", {"needs_research", "mode", "queries", "recency_days"})
    /\ UNCHANGED <<topic, as_of, evidence, plan, sections, merged_md,
                   md_with_placeholders, image_specs, final>>
    /\ UNCHANGED <<graphVars, envVars, obsVars, rsVars, imVars, slVars, uiVars>>
    /\ UNCHANGED <<merge_runs, rs_searches, synth_calls>>

\* router_node: invoke_structured raises (schema validation, transport)
router_node_raises ==
    /\ pc = "router"
    /\ Abort("router")
    /\ UNCHANGED <<stateVars, graphVars, envVars, rsVars, imVars, slVars, uiVars, trVars>>
    /\ UNCHANGED <<research_calls, planner_mode, returned_kind, img_returned, warnings>>

\* research_node: gather_evidence, then the edge research -> orchestrator.
\* Each of the first QueryCap queries is searched; when the searches
\* return nothing gather_evidence returns the empty list, otherwise the
\* synthesis call returns a pack.
research_node ==
    /\ pc = "research"
    /\ research_calls' = research_calls + 1
    /\ \E outs \in SearchRuns(Take(queries, QueryCap)) :
        /\ rs_searches' = outs
        /\ IF RawResults(queries, outs) = <<>>
           THEN /\ evidence' = <<>>
                /\ UNCHANGED <<rs_pack, rs_dedup, synth_calls>>
           ELSE /\ synth_calls' = synth_calls + 1
                /\ \E pack \in WorkflowPacks(as_of) :
                     /\ rs_pack' = pack
                     /\ rs_dedup' = DedupByUrl(pack)
                     /\ evidence' = gather_evidence(pack, as_of, recency_days, mode)
    /\ rs_queries' = Take(queries, QueryCap)
    /\ pc' = "orchestrator"
    /\ Emit("research", {"evidence"})
    /\ UNCHANGED merge_runs
    /\ UNCHANGED <<topic, as_of, mode, needs_research, queries, recency_days, plan,
                   sections, merged_md, md_with_placeholders, image_specs, final>>
    /\ UNCHANGED <<graphVars, envVars, imVars, slVars, uiVars>>
    /\ UNCHANGED <<planner_mode, returned_kind, img_returned, warnings, abort_at>>

\* research_node: the synthesis call of gather_evidence raises
research_node_raises ==
    /\ pc = "research"
    /\ research_calls' = research_calls + 1
    /\ \E outs \in SearchRuns(Take(queries, QueryCap)) :
        /\ RawResults(queries, outs) # <<>>
        /\ rs_searches' = outs
    /\ synth_calls' = synth_calls + 1
    /\ Abort("research")
    /\ rs_queries' = Take(queries, QueryCap)
    /\ UNCHANGED <<stream, merge_runs>>
    /\ UNCHANGED <<stateVars, graphVars, envVars, rs_pack, rs_dedup, imVars, slVars, uiVars>>
    /\ UNCHANGED <<planner_mode, returned_kind, img_returned, warnings>>

\* orchestrator_node, then the conditional edge fanout
orchestrator_node ==
    /\ pc = "orchestrator"
    /\ planner_mode' = mode
    /\ \E title \in Titles, kind \in BlogKinds, tasks \in TaskLists :
        /\ returned_kind' = kind
        /\ plan' = [blog_title |-> title, blog_kind |-> ForcedKind(mode, kind),
                    tasks |-> tasks]
        /\ sends' = fanout(plan', topic, mode, as_of, recency_days, evidence)
        /\ pc' = IF sends' = <<>> THEN "end" ELSE "worker"
    /\ worker_done' = {}
    /\ worker_inputs' = {}
    /\ Emit("orchestrator", {"plan"})
    /\ UNCHANGED <<merge_runs, rs_searches, synth_calls>>
    /\ UNCHANGED <<topic, as_of, mode, needs_research, queries, recency_days, evidence,
                   sections, merged_md, md_with_placeholders, image_specs, final>>
    /\ UNCHANGED <<envVars, rsVars, imVars, slVars, uiVars>>
    /\ UNCHANGED <<research_calls, img_returned, warnings, abort_at>>

orchestrator_node_raises ==
    /\ pc = "orchestrator"
    /\ planner_mode' = mode
    /\ Abort("orchestrator")
    /\ UNCHANGED <<stateVars, graphVars, envVars, rsVars, imVars, slVars, uiVars, trVars>>
    /\ UNCHANGED <<research_calls, returned_kind, img_returned, warnings>>

\* worker_node on the k-th Send; its update goes through the reducer of
\* State.sections.  After the last worker the edge worker -> reducer fires.
worker_node(k) ==
    /\ pc = "worker"
    /\ k \in (1..Len(sends)) \ worker_done
    /\ \E text \in WorkerTexts(k) :
        sections' = SectionsReducer(sections, << <<sends[k].task.id, text>> >>)
    /\ worker_done' = worker_done \cup {k}
    /\ worker_inputs' = worker_inputs \cup {[k |-> k, prompt |-> WorkerPrompt(sends[k], sections)]}
    /\ pc' = IF worker_done' = 1..Len(sends) THEN "merge_content" ELSE "worker"
    /\ Emit("worker", {"sections"})
    /\ UNCHANGED <<merge_runs, rs_searches, synth_calls>>
    /\ UNCHANGED <<topic, as_of, mode, needs_research, queries, recency_days, evidence,
                   plan, merged_md, md_with_placeholders, image_specs, final>>
    /\ UNCHANGED <<sends, envVars, obsVars, rsVars, imVars, slVars, uiVars>>

\* worker_node: llm_service.invoke raises
worker_node_raises(k) ==
    /\ pc = "worker"
    /\ k \in (1..Len(sends)) \ worker_done
    /\ Abort("worker")
    /\ UNCHANGED <<stateVars, graphVars, envVars, rsVars, imVars, slVars, uiVars, trVars>>
    /\ UNCHANGED <<research_calls, planner_mode, returned_kind, img_returned, warnings>>

\* merge_content returning "final" as well as "merged_md"
merge_content_writes_final ==
    /\ pc = "merge_content"
    /\ merge_runs' = merge_runs + 1
    /\ merged_md' = MergedMd(plan, sections)
    /\ final' = merged_md'
    /\ pc' = "decide_images"
    /\ UNCHANGED <<stream, rs_searches, synth_calls, abort_at>>
    /\ UNCHANGED <<topic, as_of, mode, needs_research, queries, recency_days, evidence,
                   plan, sections, md_with_placeholders, image_specs>>
    /\ UNCHANGED <<graphVars, envVars, rsVars, imVars, slVars, uiVars>>
    /\ UNCHANGED <<research_calls, planner_mode, returned_kind, img_returned, warnings>>

\* merge_content, the first node of the reducer subgraph
merge_content ==
    /\ pc = "merge_content"
    /\ merge_runs' = merge_runs + 1
    /\ IF PlanAbsent(plan)
       THEN /\ Abort("merge_content")
            /\ UNCHANGED merged_md
       ELSE /\ merged_md' = MergedMd(plan, sections)
            /\ pc' = "decide_images"
            /\ UNCHANGED abort_at
    /\ UNCHANGED <<stream, rs_searches, synth_calls>>
    /\ UNCHANGED <<topic, as_of, mode, needs_research, queries, recency_days, evidence,
                   plan, sections, md_with_placeholders, image_specs, final>>
    /\ UNCHANGED <<graphVars, envVars, rsVars, imVars, slVars, uiVars>>
    /\ UNCHANGED <<research_calls, planner_mode, returned_kind, img_returned, warnings>>

\* decide_images: the generation returns n images; invoke_structured
\* validates the answer against GlobalImagePlan and raises when it fails
decide_images ==
    /\ pc = "decide_images"
    /\ \E n \in 0..MaxImages :
       \E doc \in DocChoices(merged_md, n) :
        /\ img_returned' = n
        /\ IF GlobalImagePlanValid(CanonicalSpecs(n))
           THEN /\ warnings' = IF n = 0
                               THEN warnings \cup {"No images planned"}
                               ELSE warnings
                /\ md_with_placeholders' = doc
                /\ image_specs' = CanonicalSpecs(n)
                /\ pc' = "generate_and_place_images"
                /\ UNCHANGED abort_at
           ELSE /\ Abort("decide_images")
                /\ UNCHANGED <<warnings, md_with_placeholders, image_specs>>
    /\ UNCHANGED <<topic, as_of, mode, needs_research, queries, recency_days, evidence,
                   plan, sections, merged_md, final>>
    /\ UNCHANGED <<graphVars, envVars, rsVars, imVars, slVars, uiVars, trVars>>
    /\ UNCHANGED <<research_calls, planner_mode, returned_kind>>

\* generate_and_place_images: the image service, then the two files.  It
\* is the last node of the reducer subgraph: when it returns, the node
\* "reducer" of the main graph has completed.
generate_and_place_images ==
    /\ pc = "generate_and_place_images"
    /\ LET md0 == IF md_with_placeholders # <<>> THEN md_with_placeholders ELSE merged_md
       IN  \/ /\ image_specs = <<>>
              /\ final' = md0
              /\ UNCHANGED <<images_dir, im_fails, im_raised, im_called, warnings>>
           \/ /\ image_specs # <<>>
              /\ final' = Banner \o md0
              /\ warnings' = warnings \cup {"Image generation failed"}
              /\ UNCHANGED <<images_dir, im_fails, im_raised, im_called>>
           \/ /\ image_specs # <<>>
              /\ \E fails \in SUBSET (1..Len(image_specs)) :
                   LET r == process_image_specs(md0, image_specs, images_dir, fails)
                   IN  /\ final' = r.md
                       /\ images_dir' = r.files
                       /\ im_fails' = fails
                       /\ im_raised' = r.raised
                       /\ im_called' = r.called
              /\ UNCHANGED warnings
    /\ out_file' = write_text(out_file, OutputPath(plan.blog_title), final')
    /\ root_file' = write_text(root_file, RootPath(plan.blog_title), final')
    /\ pc' = "done"
    /\ Emit("reducer", {"merged_md", "md_with_placeholders", "image_specs", "final"})
    /\ UNCHANGED <<merge_runs, rs_searches, synth_calls>>
    /\ UNCHANGED <<topic, as_of, mode, needs_research, queries, recency_days, evidence,
                   plan, sections, merged_md, md_with_placeholders, image_specs>>
    /\ UNCHANGED <<graphVars, rsVars, slVars, uiVars>>
    /\ im_dir0' = images_dir
    /\ UNCHANGED <<im_md0, im_md>>
    /\ UNCHANGED <<research_calls, planner_mode, returned_kind, img_returned, abort_at>>

Next ==
    \/ router_node
    \/ router_node_raises
    \/ research_node
    \/ research_node_raises
    \/ orchestrator_node
    \/ orchestrator_node_raises
    \/ \E k \in 1..Len(sends) : worker_node(k)
    \/ \E k \in 1..Len(sends) : worker_node_raises(k)
    \/ merge_content
    \/ decide_images
    \/ generate_and_place_images

Spec == Init /\ [][Next]_vars

\* every call a stage makes returns or raises: a stage that can run does
SpecLive == Spec /\ WF_vars(Next)

(***************************************************************************)
(* gather_evidence on its own: the call is made with any mode and recency  *)
(* window, and the synthesis call returns any pack of up to MaxPack items  *)
(***************************************************************************)
\* a list of n distinct queries
QueryList(n) == [i \in 1..n |-> i]

\* the query lists given to gather_evidence: short, of exactly QueryCap
\* queries, and longer
ResearchQueryLists == {QueryList(n) : n \in {2, QueryCap, QueryCap + 1, MaxQueries}}

\* the outcomes of the searches: every combination for a short list; for a
\* long one the same outcome for all queries, or a provider that raises
\* on the first query only
ResearchRuns(qs) ==
    IF Len(qs) <= 2 THEN SearchRuns(qs)
    ELSE {[i \in 1..Len(qs) |-> o] : o \in SearchOutcomes}
            \cup {[i \in 1..Len(qs) |-> IF i = 1 THEN "raises" ELSE "hits"]}

InitResearch ==
    /\ pc = "gather"
    /\ InitAux
    /\ topic \in Topics
    /\ as_of \in AsOfDays
    /\ mode \in Modes
    /\ recency_days \in {RecencyFor(m) : m \in Modes}
    /\ queries \in ResearchQueryLists
    /\ needs_research = TRUE
    /\ evidence = <<>>
    /\ plan = NoPlan
    /\ sections = <<>>
    /\ merged_md = <<>>
    /\ md_with_placeholders = <<>>
    /\ image_specs = <<>>
    /\ final = <<>>

gather_evidence_call ==
    /\ pc = "gather"
    /\ rs_queries' = Take(queries, QueryCap)
    /\ \E outs \in ResearchRuns(rs_queries') :
        /\ rs_searches' = outs
        /\ IF RawResults(queries, outs) = <<>>
           THEN /\ evidence' = <<>>
                /\ UNCHANGED <<rs_pack, rs_dedup, synth_calls>>
           ELSE /\ synth_calls' = synth_calls + 1
                /\ \E pack \in SeqsUpTo(PackItems(as_of - recency_days), MaxPack) :
                     /\ rs_pack' = pack
                     /\ rs_dedup' = DedupByUrl(pack)
                     /\ evidence' = gather_evidence(pack, as_of, recency_days, mode)
    /\ UNCHANGED <<stream, merge_runs>>
    /\ research_calls' = research_calls + 1
    /\ pc' = "gather_returned"
    /\ UNCHANGED <<topic, as_of, mode, needs_research, queries, recency_days, plan,
                   sections, merged_md, md_with_placeholders, image_specs, final>>
    /\ UNCHANGED <<graphVars, envVars, imVars, slVars, uiVars>>
    /\ UNCHANGED <<planner_mode, returned_kind, img_returned, warnings, abort_at>>

NextResearch == gather_evidence_call

SpecResearch == InitResearch /\ [][NextResearch]_vars

(***************************************************************************)
(* process_image_specs on its own: any document and list of image specs    *)
(* of the input sets, any images directory, any set of failing renderings  *)
(***************************************************************************)
SpecTexts == {<<"caption">>, <<"see", PlaceholderTokens[1]>>}

SpecChoices ==
    {[placeholder |-> PlaceholderTokens[i], filename |-> FileNames[f],
      alt |-> <<"alt">>, caption |-> c, prompt |-> <<"prompt">>] :
        i \in 1..MaxImagesAllowed, f \in 1..2, c \in SpecTexts}

ImageDocs ==
    { <<"# ", "Title", PlaceholderTokens[1], "## A", PlaceholderTokens[2], "## B",
        PlaceholderTokens[3]>>,
      <<"# ", "Title", PlaceholderTokens[1], PlaceholderTokens[1], PlaceholderTokens[2]>> }

InitImages ==
    /\ pc = "images"
    /\ topic \in Topics
    /\ as_of \in AsOfDays
    /\ mode = ""
    /\ needs_research = FALSE
    /\ queries = <<>>
    /\ recency_days = InitialRecencyDays
    /\ evidence = <<>>
    /\ plan = NoPlan
    /\ sections = <<>>
    /\ merged_md = <<>>
    /\ md_with_placeholders = <<>>
    /\ image_specs \in SeqsUpTo(SpecChoices, MaxImagesAllowed)
    /\ final = <<>>
    /\ sends = <<>>
    /\ worker_done = {}
    /\ worker_inputs = {}
    /\ out_file = {}
    /\ root_file = {}
    /\ research_calls = 0
    /\ planner_mode = None
    /\ returned_kind = None
    /\ img_returned = -1
    /\ warnings = {}
    /\ abort_at = None
    /\ rs_pack = <<>>
    /\ rs_dedup = <<>>
    /\ rs_queries = <<>>
    /\ images_dir \in {{}, {FileNames[1]}}
    /\ im_md0 \in ImageDocs
    /\ im_dir0 = {}
    /\ im_fails = {}
    /\ im_md = <<>>
    /\ im_raised = {}
    /\ im_called = {}
    /\ sl_title = <<>>
    /\ sl_slug = <<>>
    /\ stream = <<>>
    /\ merge_runs = 0
    /\ rs_searches = <<>>
    /\ synth_calls = 0
    /\ UiIdle

\* the image specs are the argument of the call, kept in image_specs
process_image_specs_call ==
    /\ pc = "images"
    /\ \E fails \in SUBSET (1..Len(image_specs)) :
         LET r == process_image_specs(im_md0, image_specs, images_dir, fails)
         IN  /\ im_fails' = fails
             /\ im_md' = r.md
             /\ images_dir' = r.files
             /\ im_raised' = r.raised
             /\ im_called' = r.called
    /\ im_dir0' = images_dir
    /\ pc' = "images_returned"
    /\ UNCHANGED <<topic, as_of, mode, needs_research, queries, recency_days, evidence,
                   plan, sections, merged_md, md_with_placeholders, image_specs, final>>
    /\ UNCHANGED <<graphVars, obsVars, rsVars, slVars, uiVars, trVars, im_md0, out_file, root_file>>

NextImages == process_image_specs_call

SpecImages == InitImages /\ [][NextImages]_vars

(***************************************************************************)
(* The slug function on its own: any title of up to MaxTitleLen characters *)
(***************************************************************************)
InitSlug ==
    /\ pc = "slug"
    /\ InitState
    /\ sends = <<>>
    /\ worker_done = {}
    /\ worker_inputs = {}
    /\ images_dir = {}
    /\ out_file = {}
    /\ root_file = {}
    /\ research_calls = 0
    /\ planner_mode = None
    /\ returned_kind = None
    /\ img_returned = -1
    /\ warnings = {}
    /\ abort_at = None
    /\ rs_pack = <<>>
    /\ rs_dedup = <<>>
    /\ rs_queries = <<>>
    /\ im_md0 = <<>>
    /\ im_dir0 = {}
    /\ im_fails = {}
    /\ im_md = <<>>
    /\ im_raised = {}
    /\ im_called = {}
    /\ sl_title \in SeqsUpTo(TitleChars, MaxTitleLen)
    /\ sl_slug = <<>>
    /\ stream = <<>>
    /\ merge_runs = 0
    /\ rs_searches = <<>>
    /\ synth_calls = 0
    /\ UiIdle

safe_slug_call ==
    /\ pc = "slug"
    /\ sl_slug' = safe_slug(sl_title)
    /\ pc' = "slug_returned"
    /\ UNCHANGED <<stateVars, graphVars, envVars, obsVars, rsVars, imVars, trVars, uiVars, sl_title>>

NextSlug == safe_slug_call

SpecSlug == InitSlug /\ [][NextSlug]_vars

(***************************************************************************)
(* The reducer subgraph on its own: merge_content -> decide_images ->      *)
(* generate_and_place_images invoked on a state with or without a plan     *)
(***************************************************************************)
ReducerPlans ==
    { NoPlan,
      [blog_title |-> "A a!", blog_kind |-> "explainer", tasks |-> <<Task(1), Task(2)>>] }

ReducerSections == SeqsUpTo({<<1, SectionTexts[1]>>, <<2, SectionTexts[2]>>}, 2)

InitReducer ==
    /\ pc = "merge_content"
    /\ InitAux
    /\ topic \in Topics
    /\ as_of \in AsOfDays
    /\ mode = "closed_book"
    /\ needs_research = FALSE
    /\ queries = <<>>
    /\ recency_days = RecencyFor("closed_book")
    /\ evidence = <<>>
    /\ plan \in ReducerPlans
    /\ sections \in ReducerSections
    /\ merged_md = <<>>
    /\ md_with_placeholders = <<>>
    /\ image_specs = <<>>
    /\ final = <<>>

NextReducer ==
    \/ merge_content
    \/ decide_images
    \/ generate_and_place_images

SpecReducer == InitReducer /\ [][NextReducer]_vars

(***************************************************************************)
(* The presentation layer (ui/app.py): try_stream and the loop of run      *)
(* that folds the yielded payloads with extract_latest_state.  A run of    *)
(* the compiled graph is seen from outside: the plan it makes (n tasks),   *)
(* the order in which its workers complete, and the text it generates      *)
(* (v: two runs on the same inputs need not generate the same text).       *)
(***************************************************************************)
Variants == {"v1", "v2"}

Perms(n) == {f \in [1..n -> 1..n] : \A i, j \in 1..n : f[i] = f[j] => i = j}

UiRuns == {[n |-> n, order |-> o, v |-> v] : n \in {0}, o \in {<<>>}, v \in Variants}
            \cup UNION {{[n |-> n, order |-> o, v |-> v] : o \in Perms(n), v \in Variants} :
                            n \in 1..MaxUiTasks}

NoUiPlan == [n |-> 0, v |-> "none"]

\* the inputs of run (ui/app.py), restricted to the fields followed here
UiInputs ==
    ("mode" :> "") @@ ("plan" :> NoUiPlan) @@ ("sections" :> <<>>) @@ ("final" :> <<>>)

UiSection(r, k) == <<k, <<"section", k, r.v>> >>

\* the updates stream_mode="updates" yields for a run that completes: one
\* per node of the main graph, the workers in completion order, the
\* reducer subgraph as one node; without task the run ends after the planner
UpdatesOf(r) ==
    << [node |-> "router", inner |-> ("mode" :> "hybrid")],
       [node |-> "orchestrator", inner |-> ("plan" :> [n |-> r.n, v |-> r.v])] >>
    \o [i \in 1..r.n |->
            [node |-> "worker", inner |-> ("sections" :> <<UiSection(r, r.order[i])>>)]]
    \o (IF r.n = 0 THEN <<>>
        ELSE <<[node |-> "reducer", inner |-> ("final" :> <<"final", r.v>>)]>>)

\* State.sections has the reducer operator.add, the other fields none
ApplyUpdate(real, inner) ==
    [key \in DOMAIN real |->
        IF key \in DOMAIN inner
        THEN IF key = "sections" THEN real[key] \o inner[key] ELSE inner[key]
        ELSE real[key]]

\* the state of the run after its first i updates
RECURSIVE StateAfter(_, _)
StateAfter(r, i) ==
    IF i = 0 THEN UiInputs
    ELSE ApplyUpdate(StateAfter(r, i - 1), UpdatesOf(r)[i].inner)

\* the state a run that completes ends in: what invoke returns
EndState(r) == StateAfter(r, Len(UpdatesOf(r)))

\* the states stream_mode="values" yields: the input, then the state after
\* each step of the graph, the workers making one step together
ValuesOf(r) ==
    <<StateAfter(r, 0), StateAfter(r, 1), StateAfter(r, 2)>>
    \o (IF r.n = 0 THEN <<>>
        ELSE <<StateAfter(r, 2 + r.n), StateAfter(r, 3 + r.n)>>)

\* BlogWriterUI.extract_latest_state: current_state.update(inner)
extract_latest_state(current, inner) == inner @@ current

\* whether a run that completes writes the output files: the reducer ran
WritesFiles(r) == IF r.n = 0 THEN 0 ELSE 1

InitUI ==
    /\ pc = "ui"
    /\ InitState
    /\ sends = <<>>
    /\ worker_done = {}
    /\ worker_inputs = {}
    /\ images_dir = {}
    /\ out_file = {}
    /\ root_file = {}
    /\ research_calls = 0
    /\ planner_mode = None
    /\ returned_kind = None
    /\ img_returned = -1
    /\ warnings = {}
    /\ abort_at = None
    /\ rs_pack = <<>>
    /\ rs_dedup = <<>>
    /\ rs_queries = <<>>
    /\ im_md0 = <<>>
    /\ im_dir0 = {}
    /\ im_fails = {}
    /\ im_md = <<>>
    /\ im_raised = {}
    /\ im_called = {}
    /\ sl_title = <<>>
    /\ sl_slug = <<>>
    /\ stream = <<>>
    /\ merge_runs = 0
    /\ rs_searches = <<>>
    /\ synth_calls = 0
    /\ ui_pc = "call"
    /\ ui_run = None
    /\ ui_pos = 0
    /\ ui_runs = 0
    /\ ui_writes = 0
    /\ ui_state = <<>>
    /\ ui_real = UiInputs
    /\ ui_final = None

UiFrame == UNCHANGED <<pc, stateVars, graphVars, envVars, obsVars, rsVars, imVars, slVars, trVars>>

\* try_stream is called: app.stream(inputs, stream_mode="updates") starts
\* a run of the graph
try_stream_call ==
    /\ ui_pc = "call"
    /\ \E r \in UiRuns : ui_run' = r
    /\ ui_runs' = ui_runs + 1
    /\ ui_pos' = 0
    /\ ui_real' = UiInputs
    /\ ui_pc' = "updates"
    /\ UNCHANGED <<ui_writes, ui_state, ui_final>>
    /\ UiFrame

\* a node completes: ("updates", step) is yielded and run folds it into
\* current_state
yield_update ==
    /\ ui_pc = "updates"
    /\ ui_pos < Len(UpdatesOf(ui_run))
    /\ LET u == UpdatesOf(ui_run)[ui_pos + 1]
       IN  /\ ui_state' = extract_latest_state(ui_state, u.inner)
           /\ ui_real' = ApplyUpdate(ui_real, u.inner)
           /\ ui_writes' = IF u.node = "reducer" THEN ui_writes + 1 ELSE ui_writes
    /\ ui_pos' = ui_pos + 1
    /\ UNCHANGED <<ui_pc, ui_run, ui_runs, ui_final>>
    /\ UiFrame

\* the streamed run is over: final_state = self.app.invoke(inputs)
updates_end ==
    /\ ui_pc = "updates"
    /\ ui_pos = Len(UpdatesOf(ui_run))
    /\ ui_pc' = "invoke1"
    /\ UNCHANGED <<ui_run, ui_pos, ui_runs, ui_writes, ui_state, ui_real, ui_final>>
    /\ UiFrame

\* a node of the streamed run raises: the except branch is entered
stream_raises ==
    /\ ui_pc \in {"updates", "values"}
    /\ ui_pos < Len(IF ui_pc = "updates" THEN UpdatesOf(ui_run) ELSE ValuesOf(ui_run))
    /\ ui_pc' = IF ui_pc = "updates" THEN "values_start" ELSE "invoke3"
    /\ UNCHANGED <<ui_run, ui_pos, ui_runs, ui_writes, ui_state, ui_real, ui_final>>
    /\ UiFrame

\* self.app.invoke(inputs) runs the graph once more and returns its end
\* state, which is yielded as "final"
invoke_returns ==
    /\ ui_pc \in {"invoke1", "invoke2", "invoke3"}
    /\ \E r \in UiRuns :
        /\ ui_final' = EndState(r)
        /\ ui_writes' = ui_writes + WritesFiles(r)
    /\ ui_runs' = ui_runs + 1
    /\ ui_pc' = "final_yielded"
    /\ UNCHANGED <<ui_run, ui_pos, ui_state, ui_real>>
    /\ UiFrame

\* self.app.invoke(inputs) raises: the next except branch is entered, or
\* the exception leaves try_stream
invoke_raises ==
    /\ ui_pc \in {"invoke1", "invoke2", "invoke3"}
    /\ ui_runs' = ui_runs + 1
    /\ ui_pc' = IF ui_pc = "invoke1" THEN "values_start"
                ELSE IF ui_pc = "invoke2" THEN "invoke3" ELSE "raised"
    /\ UNCHANGED <<ui_run, ui_pos, ui_writes, ui_state, ui_real, ui_final>>
    /\ UiFrame

\* the fallback: app.stream(inputs, stream_mode="values") starts a run
values_start ==
    /\ ui_pc = "values_start"
    /\ \E r \in UiRuns : ui_run' = r
    /\ ui_runs' = ui_runs + 1
    /\ ui_pos' = 0
    /\ ui_real' = UiInputs
    /\ ui_pc' = "values"
    /\ UNCHANGED <<ui_writes, ui_state, ui_final>>
    /\ UiFrame

\* a step of the graph completes: ("values", state) is yielded and folded
yield_values ==
    /\ ui_pc = "values"
    /\ ui_pos < Len(ValuesOf(ui_run))
    /\ LET st == ValuesOf(ui_run)[ui_pos + 1]
       IN  /\ ui_state' = extract_latest_state(ui_state, st)
           /\ ui_real' = st
           /\ ui_writes' = IF ui_pos + 1 = 5 THEN ui_writes + 1 ELSE ui_writes
    /\ ui_pos' = ui_pos + 1
    /\ UNCHANGED <<ui_pc, ui_run, ui_runs, ui_final>>
    /\ UiFrame

\* the run streamed by values is over: final_state is still unset
values_end ==
    /\ ui_pc = "values"
    /\ ui_pos = Len(ValuesOf(ui_run))
    /\ ui_pc' = "invoke2"
    /\ UNCHANGED <<ui_run, ui_pos, ui_runs, ui_writes, ui_state, ui_real, ui_final>>
    /\ UiFrame

NextUI ==
    \/ try_stream_call
    \/ yield_update
    \/ updates_end
    \/ stream_raises
    \/ invoke_returns
    \/ invoke_raises
    \/ values_start
    \/ yield_values
    \/ values_end

SpecUI == InitUI /\ [][NextUI]_vars

(***************************************************************************)
(* Properties                                                              *)
(***************************************************************************)
TaskIds(p) == {p.tasks[k].id : k \in 1..Len(p.tasks)}
DistinctIds(p) == Cardinality(TaskIds(p)) = Len(p.tasks)

\* the section texts of a merged document, in document order
SectionTokens(md) ==
    SelectSeq(SubSeq(md, 4, Len(md)), LAMBDA t : t \notin Whitespace)

\* the text the worker of the task with this id appended to sections
TextOfId(id) == (CHOOSE i \in 1..Len(sections) : sections[i][1] = id)
TextOf(id) == sections[TextOfId(id)][2]

\* the j-th smallest task id of the plan
RankedId(p, j) ==
    CHOOSE id \in TaskIds(p) : Cardinality({x \in TaskIds(p) : x < id}) = j - 1

MergeDone == pc \in {"decide_images", "generate_and_place_images", "done"}

\* C1: for a plan with pairwise distinct task ids, whatever the order in
\* which the workers' pairs were appended to sections, the merged document
\* holds exactly one section per task, the j-th section being the text
\* written for the task with the j-th smallest id.
C1_MergeSortedByTaskId ==
    (MergeDone /\ DistinctIds(plan)) =>
        /\ Len(SectionTokens(merged_md)) = Len(plan.tasks)
        /\ \A j \in 1..Len(plan.tasks) :
             SectionTokens(merged_md)[j] = TextOf(RankedId(plan, j))
        /\ SubSeq(merged_md, 1, 2) = <<"# ", plan.blog_title>>

\* three workers whose pairs arrived out of id order, merged
C1_Witness ==
    /\ MergeDone
    /\ DistinctIds(plan)
    /\ Len(sections) = 3
    /\ sections[1][1] > sections[2][1]
    /\ sections[2][1] > sections[3][1]

\* the pairs the worker of the k-th Send can return
PairsOf(k) == {<<sends[k].task.id, t>> : t \in WorkerTexts(k)}

\* C2: sections is append-only under concurrent workers: in every state it
\* holds exactly one pair for each worker that has completed and nothing
\* else, whatever the interleaving.
C2_SectionsAccumulate ==
    /\ Len(sections) = Cardinality(worker_done)
    /\ \A k \in worker_done : \E i \in 1..Len(sections) : sections[i] \in PairsOf(k)
    /\ \A i \in 1..Len(sections) : \E k \in worker_done : sections[i] \in PairsOf(k)

\* two of three workers have returned, the third is still running
C2_Witness ==
    /\ pc = "worker"
    /\ Len(sends) = 3
    /\ worker_done = {1, 3}
    /\ Len(sections) = 2

\* C3: when the router stage completes, control goes to research if and
\* only if needs_research is true and to the planner otherwise; when the
\* research stage completes, control goes to the planner.
C3_RouteAfterRouter ==
    [][ /\ (pc = "router" /\ pc' \notin {"router", "aborted"}) =>
            /\ (pc' = "research") <=> needs_research'
            /\ (pc' = "orchestrator") <=> ~needs_research'
        /\ (pc = "research" /\ pc' \notin {"research", "aborted"}) =>
            pc' = "orchestrator" ]_vars

\* research has run and handed over to the planner
C3_Witness ==
    /\ pc = "orchestrator"
    /\ needs_research
    /\ research_calls = 1

C7_OpenBookForcesNewsRoundup ==
    (mode = "open_book" /\ plan # NoPlan) =>
        /\ plan.blog_kind = "news_roundup"
        /\ \A k \in 1..Len(sends) : sends[k].plan.blog_kind = "news_roundup"

\* the model returned explainer in an open_book run that reached its end
C7_Witness ==
    /\ pc = "done"
    /\ mode = "open_book"
    /\ returned_kind = "explainer"
    /\ plan.blog_kind = "news_roundup"

DecideImagesDone == pc \in {"generate_and_place_images", "done"}

\* C8: once decide_images has completed, image_specs holds 2 or 3 specs.
C8_ImagePlanSize ==
    DecideImagesDone => Len(image_specs) \in {2, 3}

\* decide_images completed with three image specs
C8_Witness ==
    /\ pc = "generate_and_place_images"
    /\ Len(image_specs) = 3
    /\ img_returned = 3

\* C9 as stated: when the generation behind decide_images returns zero
\* images the run does not abort there; a warning is recorded and, once
\* the run is done, the final document is stored without image references.
C9_ZeroImagesRunContinues ==
    (img_returned = 0) =>
        /\ abort_at # "decide_images"
        /\ "No images planned" \in warnings
        /\ (pc = "done" => (final # <<>> /\ ImageRefCount(final) = 0))

GatherReturned == pc = "gather_returned"

HasIsoDate(e) == e.published_at.kind \in {"date", "datetime"}

\* C5: in open_book mode every item gather_evidence returns carries a
\* publish date whose leading ten characters parse as an ISO date on or
\* after as_of - recency_days, and a deduplicated item is returned exactly
\* when it carries such a date: missing, unparseable and older dates are
\* excluded.
C5_OpenBookRecencyFilter ==
    (GatherReturned /\ mode = "open_book") =>
        LET cutoff == as_of - recency_days
        IN  /\ \A i \in 1..Len(evidence) :
                 HasIsoDate(evidence[i]) /\ evidence[i].published_at.day >= cutoff
            /\ \A j \in 1..Len(rs_dedup) :
                 (rs_dedup[j] \in Range(evidence)) <=>
                     (HasIsoDate(rs_dedup[j]) /\ rs_dedup[j].published_at.day >= cutoff)
            /\ Range(evidence) \subseteq Range(rs_dedup)

\* as_of 2024-06-10 with 7 days: the item of 2024-06-03 is kept, the item
\* of 2024-06-02 dropped
C5_Witness ==
    /\ GatherReturned
    /\ mode = "open_book"
    /\ as_of = 739047
    /\ recency_days = 7
    /\ Len(rs_dedup) = 2
    /\ rs_dedup[1].published_at = PubDate(739040)
    /\ rs_dedup[2].published_at = PubDate(739039)
    /\ evidence = <<rs_dedup[1]>>

\* C6: the dedup step is idempotent (applied to its own output it returns
\* that output), and its output holds no two items with the same url and
\* no item with an empty url.
C6_DedupIdempotent ==
    GatherReturned =>
        /\ DedupByUrl(rs_dedup) = rs_dedup
        /\ \A i, j \in 1..Len(rs_dedup) : rs_dedup[i].url = rs_dedup[j].url => i = j
        /\ \A i \in 1..Len(rs_dedup) : rs_dedup[i].url # ""

\* a pack with the same url twice was reduced to one item
C6_Witness ==
    /\ GatherReturned
    /\ Len(rs_pack) = 2
    /\ rs_pack[1].url = rs_pack[2].url
    /\ rs_pack[1] # rs_pack[2]
    /\ rs_dedup = <<rs_pack[2]>>

ImagesReturned == pc = "images_returned"

PlaceholdersOf(specs) == {specs[i].placeholder : i \in 1..Len(specs)}
DistinctPlaceholders(specs) == Cardinality(PlaceholdersOf(specs)) = Len(specs)
OnceEach(specs, md) == \A i \in 1..Len(specs) : Count(md, specs[i].placeholder) = 1
TextsFreeOfPlaceholders(specs) ==
    \A i \in 1..Len(specs) :
        (Range(specs[i].alt) \cup Range(specs[i].caption) \cup Range(specs[i].prompt))
            \cap PlaceholdersOf(specs) = {}

SpecAt(specs, token) == specs[CHOOSE i \in 1..Len(specs) : specs[i].placeholder = token]
IndexAt(specs, token) == CHOOSE i \in 1..Len(specs) : specs[i].placeholder = token

\* the document with every placeholder of the input replaced at once, by
\* the diagnostic block for the specs that raised and by the image
\* reference for the others
Substituted(md, specs, raised) ==
    Flatten([t \in 1..Len(md) |->
        IF md[t] \in PlaceholdersOf(specs)
        THEN IF IndexAt(specs, md[t]) \in raised
             THEN PromptBlock(SpecAt(specs, md[t]), ErrorText)
             ELSE ImgMd(SpecAt(specs, md[t]))
        ELSE <<md[t]>>])

FailureIsolated ==
    /\ im_md = Substituted(im_md0, image_specs, im_raised)
    /\ im_raised = im_fails \cap im_called
    /\ OnceEach(image_specs, im_md0) =>
          /\ ImageRefCount(im_md) = Len(image_specs) - Cardinality(im_raised)
          /\ DiagnosticCount(im_md) = Cardinality(im_raised)

SlugReturned == pc = "slug_returned"

SlugAlphabet == LowerChars \cup DigitChars \cup {"_", "-"}

\* C11 as stated: every title maps to a non-empty token made only of a-z,
\* 0-9, underscore and hyphen, and a title that is empty or made only of
\* punctuation and whitespace maps to "blog".
C11_SlugTotalPunctuationDefault ==
    SlugReturned =>
        /\ sl_slug # <<>>
        /\ Range(sl_slug) \subseteq SlugAlphabet
        /\ (Range(sl_title) \subseteq (PunctChars \cup TabChars \cup {" ", "_", "-"}))
              => sl_slug = DefaultSlug

\* C11 amended: every title maps to a non-empty token made only of a-z,
\* 0-9, underscore and hyphen, the token is the one slug both copies of the
\* function compute, and a title with no letter, digit or hyphen in it
\* (empty, or made only of whitespace, underscores and other characters)
\* maps to "blog".
C11_SlugTotal ==
    SlugReturned =>
        /\ sl_slug # <<>>
        /\ Range(sl_slug) \subseteq SlugAlphabet
        /\ (Range(sl_title) \cap (UpperChars \cup LowerChars \cup DigitChars \cup {"-"}) = {})
              => sl_slug = DefaultSlug
        /\ sl_slug = safe_slug(sl_title)

\* a title of punctuation, whitespace and an underscore was mapped to "blog"
C11_Witness ==
    /\ SlugReturned
    /\ sl_title = <<"!", " ", "_">>
    /\ sl_slug = DefaultSlug

RunEnded == pc \in {"end", "done"}

\* C12 as stated: a run that ends normally has stored a non-empty final
\* document and persisted it to both files; any other end is an abort
\* that names the stage that raised.
C12_RunEndsFinalOrAbort ==
    /\ RunEnded =>
          /\ final # <<>>
          /\ \E f \in out_file : f.text = final
          /\ \E f \in root_file : f.text = final
    /\ (pc = "aborted") => abort_at # None

\* C13 as stated: a run aborts only in merge_content (no plan), in the
\* router stage or in the planner stage.
C13_OnlyFatalStagesAbort ==
    abort_at \in {None, "merge_content", "router", "orchestrator"}

\* C14: merge_content on a state without plan raises and stores no
\* merged_md; decide_images and generate_and_place_images do not run and
\* no file is written.
C14_MergeWithoutPlanFails ==
    (plan = NoPlan /\ merge_runs >= 1) =>
        /\ pc = "aborted"
        /\ abort_at = "merge_content"
        /\ merged_md = <<>>
        /\ img_returned = -1
        /\ md_with_placeholders = <<>>
        /\ image_specs = <<>>
        /\ final = <<>>
        /\ out_file = {}
        /\ root_file = {}

\* merge_content was started on a state with sections but no plan
C14_Witness ==
    /\ plan = NoPlan
    /\ merge_runs = 1
    /\ Len(sections) = 2
    /\ pc = "aborted"

NoHits == \A i \in 1..Len(rs_searches) : rs_searches[i] # "hits"

\* C15: once gather_evidence has been called, the synthesis call to the
\* gateway was made exactly when some search returned results (a search
\* without credential, or whose provider raised, contributes nothing); the
\* run is aborted in the research stage only by that synthesis call; and
\* when no search returned results the evidence is empty, no gateway call
\* was made and control has passed to the planner.
C15_ResearchSoftDependency ==
    (research_calls >= 1) =>
        /\ (synth_calls = 1) <=> ~NoHits
        /\ (synth_calls = 0) <=> NoHits
        /\ abort_at = "research" => synth_calls = 1
        /\ NoHits =>
              /\ evidence = <<>>
              /\ pc # "research"
              /\ pc = "aborted" => planner_mode # None
              /\ pc # "aborted" => (planner_mode = None <=> pc = "orchestrator")

\* the provider raised for both queries and the run reached the planner
\* with no evidence and no gateway call from research
C15_Witness ==
    /\ research_calls = 1
    /\ rs_searches = <<"raises", "raises">>
    /\ synth_calls = 0
    /\ evidence = <<>>
    /\ pc = "worker"
    /\ planner_mode # None

BannerFallback == "Image generation failed" \in warnings

\* the document generate_and_place_images starts from
StartMd == IF md_with_placeholders # <<>> THEN md_with_placeholders ELSE merged_md

\* C16: when the image service call as a whole raised, the stage completed
\* all the same: final is the document it started from, placeholders
\* included, with exactly one warning banner in front, and it is the text
\* of both files.
C16_BannerOnImageServiceFailure ==
    BannerFallback =>
        /\ pc = "done"
        /\ final = Banner \o StartMd
        /\ Count(final, Banner[1]) = 1
        /\ Len(final) = Len(StartMd) + 1
        /\ \A t \in Range(StartMd) : Count(final, t) = Count(StartMd, t)
        /\ \E f \in out_file : f.text = final
        /\ \E f \in root_file : f.text = final

\* the image service raised as a whole on a document with three
\* placeholders, which are still in the final document
C16_Witness ==
    /\ BannerFallback
    /\ pc = "done"
    /\ Len(image_specs) = 3
    /\ \A i \in 1..3 : Count(final, image_specs[i].placeholder) = 1
    /\ Head(final) = Banner[1]

\* C17: when generate_and_place_images has completed, outputs/<slug>.md
\* and <slug>.md, slug being the slug of the plan's title, are the two
\* files written and both hold the text stored in final; before that no
\* file is written.
C17_FinalWrittenToBothFiles ==
    /\ (pc = "done") =>
          /\ out_file = {[name |-> <<"outputs/">> \o safe_slug(Chars(plan.blog_title))
                                       \o <<".md">>,
                          text |-> final]}
          /\ root_file = {[name |-> safe_slug(Chars(plan.blog_title)) \o <<".md">>,
                           text |-> final]}
    /\ (pc # "done") => (out_file = {} /\ root_file = {} /\ final = <<>>)

\* the run of the plan titled "A a!" wrote its final document, with image
\* references in it, to outputs/a_a.md and a_a.md
C17_Witness ==
    /\ pc = "done"
    /\ ImageRefCount(final) = 3
    /\ out_file = {[name |-> <<"outputs/", "a", "_", "a", ".md">>, text |-> final]}
    /\ root_file = {[name |-> <<"a", "_", "a", ".md">>, text |-> final]}

RouterDone == pc # "router" /\ abort_at # "router"

\* C18: from the end of the router stage on, recency_days is 7 in
\* open_book mode, 45 in hybrid mode and 3650 in closed_book mode, in the
\* state and in every work item sent to a worker.
C18_RecencyTable ==
    RouterDone =>
        /\ \/ mode = "open_book" /\ recency_days = 7
           \/ mode = "hybrid" /\ recency_days = 45
           \/ mode = "closed_book" /\ recency_days = 3650
        /\ \A k \in 1..Len(sends) :
             sends[k].mode = mode /\ sends[k].recency_days = recency_days

\* a hybrid run reached its end with a window of 45 days
C18_Witness ==
    /\ pc = "done"
    /\ mode = "hybrid"
    /\ recency_days = 45
    /\ Len(sends) = 2

StreamNodes == [i \in 1..Len(stream) |-> stream[i].node]

\* C19 as stated: every stage that has completed has an update in the
\* stream under its own name, carrying the keys it wrote, in completion
\* order: router, research if it ran, orchestrator, one per worker, then
\* merge_content, decide_images and generate_and_place_images.
C19_EveryStageObserved ==
    /\ (RouterDone /\ pc # "router") => Count(StreamNodes, "router") = 1
    /\ Count(StreamNodes, "worker") = Cardinality(worker_done)
    /\ MergeDone =>
          \E i \in 1..Len(stream) :
              stream[i].node = "merge_content" /\ "merged_md" \in stream[i].keys
    /\ DecideImagesDone =>
          \E i \in 1..Len(stream) :
              stream[i].node = "decide_images" /\ "image_specs" \in stream[i].keys
    /\ (pc = "done") =>
          \E i \in 1..Len(stream) :
              stream[i].node = "generate_and_place_images" /\ "final" \in stream[i].keys

\* the stages complete in the order of the graph, and merge_content starts
\* only when every work item has its worker's pair in sections, at most once
StageOrderBarrier ==
    /\ pc \in {"research", "orchestrator"} => (mode # "" /\ plan = NoPlan)
    /\ pc = "research" => needs_research
    /\ pc = "worker" => (plan # NoPlan /\ merge_runs = 0 /\ merged_md = <<>>)
    /\ merge_runs >= 1 =>
          /\ worker_done = 1..Len(sends)
          /\ Len(sections) = Len(sends)
          /\ \A k \in 1..Len(sends) : \E i \in 1..Len(sections) : sections[i] \in PairsOf(k)
    /\ merge_runs <= 1
    /\ pc = "merge_content" => (plan # NoPlan /\ merge_runs = 0)
    /\ pc = "decide_images" => (merge_runs = 1 /\ img_returned = -1)
    /\ pc = "generate_and_place_images" => (img_returned \in {2, 3} /\ final = <<>>)
    /\ needs_research /\ pc \notin {"router", "research", "aborted"} => research_calls = 1
    /\ ~needs_research => research_calls = 0

\* C20 as stated: the stages run in the order of the graph, merge_content
\* starts only after every dispatched worker has contributed its pair, and
\* it runs exactly once in a run: never twice, and once in every run that
\* ends normally.
C20_OrderBarrierMergeOnce ==
    /\ StageOrderBarrier
    /\ RunEnded => merge_runs = 1

\* the number of pairs in sections that carry this task id
PairsWithId(id) == Cardinality({i \in 1..Len(sections) : sections[i][1] = id})

\* C21: once the plan exists there is exactly one work item per task of
\* the plan, in the order of the tasks; every worker that has run has run
\* once, on its own work item, and has contributed exactly one pair, whose
\* id is the id of its task; when the merge starts every task has been
\* consumed.
C21_OneWorkerPerTask ==
    /\ plan # NoPlan =>
          /\ Len(sends) = Len(plan.tasks)
          /\ \A k \in 1..Len(sends) : sends[k].task = plan.tasks[k]
    /\ Len(sections) = Cardinality(worker_done)
    /\ Cardinality(worker_inputs) = Cardinality(worker_done)
    /\ \A k \in worker_done : \E w \in worker_inputs : w.k = k /\ w.prompt.task = sends[k].task
    /\ \A id \in TaskIds(plan) :
          PairsWithId(id) = Cardinality({k \in worker_done : sends[k].task.id = id})
    /\ MergeDone => worker_done = 1..Len(plan.tasks)

\* a plan of three tasks whose three workers have each contributed a pair
C21_Witness ==
    /\ pc = "done"
    /\ Len(plan.tasks) = 3
    /\ Len(sends) = 3
    /\ Len(sections) = 3
    /\ \A id \in 1..3 : PairsWithId(id) = 1

\* C22: what a worker builds its gateway call from is its own work item
\* and nothing else: the task, and the topic, mode, as-of date, recency
\* window, plan and evidence of the state at fan-out time, whatever
\* sections held and whichever workers had completed when it ran; the pair
\* it contributes is a pair of its own task.
C22_WorkerIsolation ==
    /\ \A w \in worker_inputs :
          w.prompt = [task |-> plan.tasks[w.k], plan |-> plan, topic |-> topic,
                      mode |-> mode, as_of |-> as_of, recency_days |-> recency_days,
                      evidence |-> evidence]
    /\ \A k \in worker_done : \E i \in 1..Len(sections) : sections[i] \in PairsOf(k)

\* the worker of the first work item ran last, after the two others had
\* put their pairs in sections
C22_Witness ==
    /\ Len(sends) = 3
    /\ Len(sections) = 3
    /\ sections[3][1] = sends[1].task.id
    /\ Cardinality(worker_inputs) = 3
    /\ evidence # <<>>

\* C23: a step changes mode, needs_research, queries or recency_days only
\* if it is the router's, evidence only if it is research's, plan only if
\* it is the planner's, merged_md only if it is merge_content's,
\* md_with_placeholders or image_specs only if it is decide_images's, final
\* only if it is generate_and_place_images's; no step changes topic or
\* as_of, and a plan once stored is never changed.
C23_SingleWriter ==
    [][ /\ (<<mode, needs_research, queries, recency_days>>'
                # <<mode, needs_research, queries, recency_days>>) => pc = "router"
        /\ (evidence' # evidence) => pc = "research"
        /\ (plan' # plan) => (pc = "orchestrator" /\ plan = NoPlan)
        /\ (merged_md' # merged_md) => pc = "merge_content"
        /\ (<<md_with_placeholders, image_specs>>' # <<md_with_placeholders, image_specs>>)
              => pc = "decide_images"
        /\ (final' # final) => pc = "generate_and_place_images"
        /\ topic' = topic
        /\ as_of' = as_of ]_vars

\* a run in which every stage wrote its fields
C23_Witness ==
    /\ pc = "done"
    /\ evidence # <<>>
    /\ plan # NoPlan
    /\ merged_md # <<>>
    /\ md_with_placeholders # <<>>
    /\ image_specs # <<>>
    /\ final # <<>>

\* C24: gather_evidence gives search_tavily the first 10 queries of its
\* list, in order, and no other: the whole list when it has at most 10
\* queries, its first 10 otherwise; one search is made per query kept, and
\* the call returns.
C24_FirstTenQueries ==
    GatherReturned =>
        /\ Len(rs_queries) = (IF Len(queries) <= 10 THEN Len(queries) ELSE 10)
        /\ \A i \in 1..Len(rs_queries) : rs_queries[i] = queries[i]
        /\ Len(rs_searches) = Len(rs_queries)

\* twelve queries were given, the first ten searched, and the synthesis
\* call made on their results
C24_Witness ==
    /\ GatherReturned
    /\ Len(queries) = 12
    /\ Len(rs_queries) = 10
    /\ rs_queries[10] = queries[10]
    /\ synth_calls = 1
    /\ rs_searches[1] = "raises"

\* C25 as stated: one call of try_stream runs the workflow once and the
\* output files are written once; the state yielded as "final" is the end
\* state of the run whose updates were streamed.
C25_WorkflowRunsOnce ==
    /\ ui_runs <= 1
    /\ ui_writes <= 1
    /\ (ui_pc = "final_yielded") => ui_final = ui_real

\* C26 as stated: while updates are streamed, every field of the state the
\* presentation layer has rebuilt equals the field of the run's state, and
\* its sections list holds one pair per worker update received.
C26_RebuiltStateAgrees ==
    (ui_pc = "updates") =>
        /\ \A key \in DOMAIN ui_state : ui_state[key] = ui_real[key]
        /\ "sections" \in DOMAIN ui_state =>
              Len(ui_state["sections"]) = Len(ui_real["sections"])

IsSectionText(t) == t \in Range(SectionTexts)

\* C27 as stated: in a run that completes, the section texts occur in final
\* once each and in ascending task-id order, all of them under the
\* level-1 heading with the plan's title.
C27_FinalKeepsMergedContent ==
    (pc = "done") =>
        /\ SelectSeq(final, IsSectionText) = OrderedSections(sections)
        /\ \E i \in 1..(Len(final) - 1) :
              /\ final[i] = "# "
              /\ final[i + 1] = plan.blog_title
              /\ \A j \in 1..Len(final) : IsSectionText(final[j]) => j > i + 1

\* C28 as stated: after process_image_specs has returned, the placeholder
\* token of no spec of the list occurs in the document.
C28_NoPlaceholderLeft ==
    ImagesReturned =>
        \A i \in 1..Len(image_specs) : Count(im_md, image_specs[i].placeholder) = 0

\* the file of spec i exists when its turn comes: it was in the images
\* directory before the call, or an earlier spec of the list rendered it
FilePresentAt(i) ==
    image_specs[i].filename \in
        im_dir0 \cup {image_specs[j].filename : j \in (im_called \ im_raised) \cap 1..(i - 1)}

\* C29: the backend is called for a spec exactly when no file of its name
\* exists when its turn comes; when the file exists the rendering does not
\* raise, whatever the backend would do, the file stays in the directory
\* and the placeholder is replaced by the image reference to it.  No file
\* of the directory is removed.
C29_BackendOnlyWhenFileAbsent ==
    ImagesReturned =>
        /\ \A i \in 1..Len(image_specs) :
              /\ (i \in im_called) <=> ~FilePresentAt(i)
              /\ FilePresentAt(i) =>
                    /\ i \notin im_raised
                    /\ image_specs[i].filename \in images_dir
        /\ im_dir0 \subseteq images_dir
        /\ images_dir = im_dir0 \cup {image_specs[j].filename : j \in im_called \ im_raised}
        /\ (DistinctPlaceholders(image_specs) /\ TextsFreeOfPlaceholders(image_specs)) =>
              im_md = Substituted(im_md0, image_specs, im_raised)

\* img_1.png is there from an earlier run and the second and third spec
\* share img_2.png: only the second spec calls the backend, and the first,
\* whose backend call would have raised, gets its image reference
C29_Witness ==
    /\ ImagesReturned
    /\ im_dir0 = {FileNames[1]}
    /\ Len(image_specs) = 3
    /\ DistinctPlaceholders(image_specs)
    /\ image_specs[1].filename = FileNames[1]
    /\ image_specs[2].filename = FileNames[2]
    /\ image_specs[3].filename = FileNames[2]
    /\ 1 \in im_fails
    /\ im_called = {2}
    /\ im_raised = {}
    /\ images_dir = {FileNames[1], FileNames[2]}

\* the position of a stage in the graph
StageRank ==
    CASE pc = "router" -> 0
      [] pc = "research" -> 1
      [] pc = "orchestrator" -> 2
      [] pc = "worker" -> 3
      [] pc = "merge_content" -> 4
      [] pc = "decide_images" -> 5
      [] pc = "generate_and_place_images" -> 6
      [] OTHER -> 7

\* every step moves the run forward in the graph or completes one more
\* worker: no stage is entered again and no worker runs twice
RunProgresses ==
    [][\/ StageRank' > StageRank
       \/ /\ pc = "worker"
          /\ pc' = "worker"
          /\ worker_done \subseteq worker_done'
          /\ Cardinality(worker_done') = Cardinality(worker_done) + 1]_vars


\* C30 as stated: every run eventually terminates having set final or
\* having aborted.
C30_TerminatesFinalOrAbort ==
    <>((pc = "done" /\ final # <<>>) \/ pc = "aborted")

====
